---- MODULE Spec2Model ----
(***************************************************************************)
(* loopback-connector-minio: the connector's lifecycle (lib/minio.js,      *)
(* MinioDB.prototype.connect, setupDataAccessObject) and its forwarding    *)
(* methods, as a state machine.                                            *)
(*                                                                         *)
(* JavaScript runs every function body to completion, so one action is one *)
(* synchronous run: initialize(), a call of connect(), one process.nextTick *)
(* callback, a call of one forwarding method, one completion callback.     *)
(* The host data source (its `connecting` flag and its 'connected' event)  *)
(* and the minio client are the environment.                               *)
(***************************************************************************)
EXTENDS Integers, Sequences, FiniteSets, TLC

(* ------------------------------ bounds ------------------------------- *)

\* callers of connect(), each calling once
MaxCallers == 3
\* how many times the client constructor may throw
MaxThrows == 1
\* models the host may define on the connector
MaxModels == 1
\* distinct setting values
MaxValue == 2
\* invocations of forwarding methods in one run
MaxCalls == 1
MaxSetups == 2
MaxInFlight == 2
MaxRepeats == 1

Callers == 1..MaxCallers
Values == 1..MaxValue
Models == 1..MaxModels

(* ----------------------------- settings ------------------------------ *)

\* lib/minio.js:103-116
validOptionNames ==
  << "bucketName", "endPoint", "port", "useSSL", "accessKey", "secretKey",
     "region", "transport", "sessionToken", "partSize", "pathStyle",
     "transportAgent" >>

\* settings the connector or its host read that are no client option
OtherOptionNames == {"connector", "debug", "lazyConnect"}

Range(s) == {s[i] : i \in DOMAIN s}

AllOptionNames == Range(validOptionNames) \cup OtherOptionNames

\* validOptionNames.indexOf(option) > -1
IsValidOption(option) == \E i \in DOMAIN validOptionNames : validOptionNames[i] = option

\* the settings of the test suite's local data source
minioConfigLocal == {"connector", "endPoint", "port", "useSSL", "accessKey", "secretKey"}

\* the record connect() builds for new minio.Client(...)
ValidOptions(s) == [option \in {o \in DOMAIN s : IsValidOption(o)} |-> s[option]]

NoOptions == [option \in {} |-> 0]

\* settings.<option>, 0 when undefined
Setting(s, option) == IF option \in DOMAIN s THEN s[option] ELSE 0

\* a setting read as a condition: settings.lazyConnect, settings.debug
Truthy(s, option) == option \in DOMAIN s /\ s[option] # 0

\* the test suite's settings, with the flags in flags switched on
LocalSettings(flags) == [k \in minioConfigLocal \cup flags |-> 1]


(* ------------------------ the forwarding methods ---------------------- *)

\* the entries setupDataAccessObject binds on this.DataAccessObject
BoundNames ==
  { "makeBucket", "bucketExists", "removeBucket", "listBuckets", "listObjects",
    "listObjectsV2", "listIncompleteUploads", "getBucketVersioning",
    "setBucketVersioning", "getBucketTagging", "setBucketTagging",
    "removeBucketTagging", "setBucketLifecycle", "getBucketLifecycle",
    "removeBucketLifecycle", "setBucketEncryption", "getBucketEncryption",
    "removeBucketEncryption", "setBucketReplication", "getBucketReplication",
    "removeBucketReplication", "setObjectLockConfig", "getObjectLockConfig",
    "setBucketPolicy", "getBucketPolicy", "setBucketNotification",
    "getBucketNotification",
    "getObject", "getPartialObject", "fGetObject", "putObject", "fPutObject",
    "copyObject", "statObject", "removeObject", "removeObjects",
    "removeIncompleteUpload", "putObjectRetention", "getObjectRetention",
    "getObjectLegalHold", "setObjectTagging", "getObjectTagging",
    "removeObjectTagging", "composeObject", "selectObjectContent",
    "presignedUrl", "presignedGetObject", "presignedPutObject",
    "presignedPostPolicy" }

\* the forwarding methods MinioDB.prototype defines and the table leaves out
UnboundMethods ==
  { "listObjectsV2WithMetadata", "setObjectRetention", "setObjectLegalHold",
    "removeAllBucketNotification", "listenBucketNotification" }

\* every forwarding method of MinioDB.prototype
PrototypeMethods == BoundNames \cup UnboundMethods

\* the README's table of operations
ReadmeOperations ==
  { "makeBucket", "listBuckets", "bucketExists", "removeBucket", "listObjects",
    "listObjectsV2", "listIncompleteUploads", "getBucketVersioning",
    "setBucketVersioning", "getBucketTagging", "setBucketTagging",
    "removeBucketTagging", "setBucketLifecycle", "getBucketLifecycle",
    "removeBucketLifecycle", "setObjectLockConfig", "getObjectLockConfig",
    "getBucketEncryption", "setBucketEncryption", "removeBucketEncryption",
    "setBucketReplication", "getBucketReplication", "removeBucketReplication",
    "getObject", "getPartialObject", "fGetObject", "putObject", "fPutObject",
    "copyObject", "statObject", "removeObject", "removeObjects",
    "removeIncompleteUpload", "putObjectRetention", "getObjectRetention",
    "setObjectTagging", "removeObjectTagging", "getObjectTagging",
    "getObjectLegalHold", "setObjectLegalHold", "composeObject",
    "selectObjectContent",
    "presignedUrl", "presignedGetObject", "presignedPutObject",
    "presignedPostPolicy", "getBucketPolicy", "setBucketPolicy",
    "getBucketNotification", "setBucketNotification",
    "removeAllBucketNotification", "listenBucketNotification" }

\* methods whose client call returns a stream or listener and takes no callback
StreamMethods ==
  { "listObjects", "listObjectsV2", "listObjectsV2WithMetadata",
    "listIncompleteUploads", "getObject", "getPartialObject",
    "selectObjectContent", "listenBucketNotification" }

\* methods whose completion callback is function(err) and ends in resolve()
ResolveVoidMethods ==
  { "makeBucket", "removeBucket", "setObjectRetention", "removeAllBucketNotification" }

\* the method whose completion callback ends in resolve(true)
ResolveTrueMethods == {"removeObject"}

\* the method that takes a callback and wraps the call in no promise
CallbackStyleMethods == {"getBucketVersioning"}

\* the method that creates its promise and does not return it
UnreturnedPromiseMethods == {"setBucketVersioning"}

\* the method that builds a policy from self.client before its promise
PreparingMethods == {"presignedPostPolicy"}

\* the parameters each method declares
Params(op) ==
  CASE op = "makeBucket" -> << "bucketName", "region" >>
    [] op = "listBuckets" -> << >>
    [] op \in { "bucketExists", "removeBucket", "getBucketReplication",
                "removeBucketReplication", "getBucketLifecycle", "removeBucketLifecycle",
                "getObjectLockConfig", "getBucketEncryption", "removeBucketEncryption",
                "getBucketNotification", "removeAllBucketNotification",
                "listenBucketNotification", "getBucketPolicy" } -> << "bucketName" >>
    [] op = "listObjects" -> << "bucketName", "prefix", "recursive", "listOpts" >>
    [] op = "listObjectsV2" -> << "bucketName", "prefix", "recursive" >>
    [] op = "listObjectsV2WithMetadata" ->
         << "bucketName", "prefix", "recursive", "startAfter" >>
    [] op = "listIncompleteUploads" -> << "bucketName", "prefix", "recursive", "callback" >>
    [] op \in {"getBucketVersioning", "getBucketTagging", "removeBucketTagging"} ->
         << "bucketName", "callback" >>
    [] op = "setBucketVersioning" -> << "bucketName", "versioningConfig" >>
    [] op = "setBucketReplication" -> << "bucketName", "replicationConfig" >>
    [] op = "setBucketTagging" -> << "bucketName", "tags", "callback" >>
    [] op = "setBucketLifecycle" -> << "bucketName", "lifecycleConfig" >>
    [] op = "setObjectLockConfig" -> << "bucketName", "lockConfig" >>
    [] op = "setBucketEncryption" -> << "bucketName", "encryptionConfig" >>
    [] op \in {"getObject", "getObjectRetention", "getObjectTagging", "getObjectLegalHold"} ->
         << "bucketName", "objectName", "getOpts" >>
    [] op = "getPartialObject" ->
         << "bucketName", "objectName", "offset", "length", "getOpts" >>
    [] op \in {"fGetObject", "fPutObject"} -> << "bucketName", "objectName", "filePath" >>
    [] op = "putObject" -> << "bucketName", "objectName", "stream", "size", "putOpts" >>
    [] op = "copyObject" -> << "bucketName", "objectName", "destBucket", "destObjectName" >>
    [] op \in {"statObject", "removeIncompleteUpload"} -> << "bucketName", "objectName" >>
    [] op = "removeObject" -> << "bucketName", "objectName", "removeOpts" >>
    [] op = "removeObjects" -> << "bucketName", "objectList" >>
    [] op = "putObjectRetention" -> << "bucketName", "objectName", "retentionOpts" >>
    [] op = "setObjectRetention" ->
         << "bucketName", "objectName", "mode", "retainUntilDate" >>
    [] op = "setObjectTagging" -> << "bucketName", "objectName", "tags", "putOpts" >>
    [] op = "removeObjectTagging" -> << "bucketName", "objectName", "removeopts" >>
    [] op = "setObjectLegalHold" -> << "bucketName", "objectName", "setOpts" >>
    [] op = "composeObject" -> << "bucketName", "sourceObjectList" >>
    [] op = "selectObjectContent" -> << "bucketName", "objectName", "selectOpts" >>
    [] op = "presignedUrl" ->
         << "method", "bucketName", "objectName", "expiry", "reqParams" >>
    [] op = "presignedGetObject" ->
         << "bucketName", "objectName", "expiry", "respHeaders", "requestDate" >>
    [] op = "presignedPutObject" -> << "bucketName", "objectName", "expiry" >>
    [] op = "presignedPostPolicy" ->
         << "bucketName", "objectName", "objectNamePrefix", "expiresInSeconds" >>
    [] op = "setBucketNotification" -> << "bucketName", "notificationConfig" >>
    [] op = "setBucketPolicy" -> << "bucketName", "bucketPolicy" >>

\* methods whose last parameter may be left out: documented as optional, or the
\* callback; a caller's trailing callback takes that parameter's place
TrailingOptional ==
  { "makeBucket", "listObjects", "listObjectsV2", "listObjectsV2WithMetadata",
    "listIncompleteUploads", "getBucketVersioning", "getBucketTagging",
    "setBucketTagging", "removeBucketTagging", "getObject", "getPartialObject",
    "removeObject", "putObjectRetention", "getObjectRetention", "setObjectTagging",
    "removeObjectTagging", "getObjectTagging", "getObjectLegalHold",
    "selectObjectContent" }

\* the argument lists a caller passes: a value for every parameter (the value is
\* named after the parameter), or a callback as the last argument; makeBucket,
\* which looks at region, is also called without it and with undefined and null
Arguments(op, cb) ==
  LET p == Params(op) IN
    IF cb
    THEN IF op \in TrailingOptional
         THEN {[p EXCEPT ![Len(p)] = "callback"]}
         ELSE {Append(p, "callback")}
    ELSE IF op = "makeBucket"
    THEN {p, << "bucketName" >>, << "bucketName", "undefined" >>, << "bucketName", "null" >>}
    ELSE {p}

\* the value parameter i holds for the argument list a
Arg(a, i) == IF i \in DOMAIN a THEN a[i] ELSE "undefined"

\* the method of self.client each forwarding method calls
ClientMethod(op) ==
  CASE op = "listObjectsV2WithMetadata" -> "listObjectsV2"
    [] op = "setBucketLifecycle" -> "putBucketLifecycleConfiguration"
    [] op = "getBucketLifecycle" -> "getBucketLifecycleConfiguration"
    [] op = "removeBucketLifecycle" -> "removeBucketLifecycleConfiguration"
    [] op = "setObjectLockConfig" -> "putObjectLockConfiguration"
    [] op = "getObjectLockConfig" -> "getObjectLockConfiguration"
    [] op = "setObjectTagging" -> "putObjectTagging"
    [] op = "removeAllBucketNotification" -> "setBucketNotification"
    [] OTHER -> op

ClientArgsFalsyRegion(op, a) ==
  IF Arg(a, 2) \in {"undefined", "null"}
  THEN << << Arg(a, 1) >>, << "completion" >> >>
  ELSE << << Arg(a, 1) >>, << Arg(a, 2) >>, << "completion" >> >>

\* the arguments handed to the client method, each a tuple: <<v>> is the value v
\* itself, <<"object", ...>> an object literal built from the values,
\* <<"completion">> the method's own completion callback; makeBucket chooses
\* between its two calls by region === undefined
ClientArgs(op, a) ==
  LET n == Len(Params(op))
      plain == [i \in 1..n |-> << Arg(a, i) >>]
      completion == << << "completion" >> >>
  IN CASE op = "makeBucket" ->
            IF Arg(a, 2) = "undefined"
            THEN << << Arg(a, 1) >> >> \o completion
            ELSE plain \o completion
       [] op \in {"listObjectsV2", "listIncompleteUploads"} ->
            << << "object", Arg(a, 1), Arg(a, 2), Arg(a, 3) >> >>
       [] op = "getBucketVersioning" -> << << "object", Arg(a, 1) >> >> \o completion
       [] op \in {"getBucketTagging", "removeBucketTagging"} ->
            << << Arg(a, 1) >> >> \o completion
       [] op = "setBucketTagging" -> << << Arg(a, 1) >>, << Arg(a, 2) >> >> \o completion
       [] op = "setBucketPolicy" ->
            << << Arg(a, 1) >>, << "JSON.stringify", Arg(a, 2) >> >> \o completion
       [] op = "presignedPostPolicy" ->
            << << "object", Arg(a, 4), Arg(a, 2), Arg(a, 1) >> >> \o completion
       [] op = "removeAllBucketNotification" ->
            << << Arg(a, 1) >>, << "object" >> >> \o completion
       [] op \in StreamMethods -> plain
       [] OTHER -> plain \o completion

\* the caller's callback reaches the client as an argument of its own
ForwardsCallback(op, a) ==
  \E i \in DOMAIN ClientArgs(op, a) : ClientArgs(op, a)[i] = << "callback" >>

\* what the method hands back to its caller
Returns(op) ==
  IF op \in CallbackStyleMethods \cup UnreturnedPromiseMethods
  THEN "undefined" ELSE "promise"

\* the payload the completion callback resolves with, the client's being v
ResolvedValue(op, v) ==
  IF op \in ResolveVoidMethods THEN "void"
  ELSE IF op \in ResolveTrueMethods THEN "true"
  ELSE v

\* values the client's completion callback may carry: none, or some data
ClientValues == {"void", "v1"}
\* a callback declared function(err) belongs to a call that yields no value
ClientValuesOf(op) ==
  IF op \in ResolveVoidMethods \cup ResolveTrueMethods THEN {"void"}
  ELSE IF op \in StreamMethods THEN {"stream"}
  ELSE ClientValues
\* errors the client's completion callback may carry
ClientErrors == {"e1"}

(* ------------------------------- state ------------------------------- *)

VARIABLES
  settings,       \* self.settings: option name -> value
  bucketName,     \* self.bucketName, 0 when undefined
  mixinFails,     \* the host's dataSource.mixin can raise
  debug,          \* self.debug
  init,           \* how exports.initialize ran: "pending", "plain", "callback"
  client,         \* self.client: 0 when absent, else the handle's identity
  constructed,    \* clients new minio.Client has returned
  thrown,         \* times new minio.Client has thrown
  lastOptions,    \* the record handed to the last new minio.Client
  DataAccessObject,  \* names bound on this.DataAccessObject
  published,      \* dataSource.DataAccessObject is this.DataAccessObject
  setups,         \* runs of setupDataAccessObject
  connector,      \* self.connector is the connector itself
  models,         \* this._models: the models defined on the connector
  mixed,          \* <<model, by>>: dataSource.mixin ran for model, in "setup" or "define"
  dsConnecting,   \* dataSource.connecting
  listeners,      \* once('connected') listeners, in registration order
  ticks,          \* process.nextTick queue
  callers,        \* what each caller of connect() has seen
  calls           \* invocations of forwarding methods

vars == << settings, bucketName, mixinFails, debug, init, client, constructed, thrown, lastOptions, DataAccessObject,
           published, setups, connector, models, mixed, dsConnecting, listeners,
           ticks, callers, calls >>

connVars == << client, constructed, thrown, lastOptions, DataAccessObject,
               published, setups, connector, mixed >>

IdleCaller == [st |-> "idle", cb |-> FALSE, branch |-> "none", err |-> "none", handle |-> 0]

(* ------------------------------ Init --------------------------------- *)

\* the state new MinioDB(settings, dataSource) leaves, for settings s and
\* the debug module's enabled flag
NewMinioDB(s, enabled) ==
  /\ settings = s
  /\ bucketName = Setting(s, "bucketName")
  /\ debug = (Truthy(s, "debug") \/ enabled)
  /\ init = "pending"
  /\ client = 0
  /\ constructed = 0
  /\ thrown = 0
  /\ lastOptions = NoOptions
  /\ DataAccessObject = {}
  /\ published = FALSE
  /\ setups = 0
  /\ connector = FALSE
  /\ models = {}
  /\ mixed = {}
  /\ dsConnecting = FALSE
  /\ listeners = << >>
  /\ ticks = << >>
  /\ callers = [c \in Callers |-> IdleCaller]
  /\ calls = << >>

\* a connector on a host whose mixin does not raise
InitWith(s, enabled) == NewMinioDB(s, enabled) /\ mixinFails = FALSE

Init == \E lazy \in SUBSET {"lazyConnect"} : InitWith(LocalSettings(lazy), FALSE)

(* ----------------------------- connect ------------------------------- *)

Called(c, hasCb, st, branch, err, handle) ==
  [callers EXCEPT ![c] =
     [st |-> st, cb |-> hasCb, branch |-> branch, err |-> err, handle |-> handle]]

\* if (self.client): the callback is deferred to the next tick
ConnectReadyRebuilds(c, hasCb) ==
  /\ client' = constructed + 1
  /\ constructed' = constructed + 1
  /\ ticks' = Append(ticks, c)
  /\ callers' = Called(c, hasCb, "scheduled", "ready", "none", 0)
  /\ UNCHANGED << settings, bucketName, mixinFails, debug, models, thrown, lastOptions, DataAccessObject, published,
                  setups, connector, mixed, dsConnecting, listeners, calls >>

ConnectReady(c, hasCb) ==
  /\ ticks' = Append(ticks, c)
  /\ callers' = Called(c, hasCb, "scheduled", "ready", "none", 0)
  /\ UNCHANGED << settings, bucketName, mixinFails, debug, models, connVars, dsConnecting, listeners, calls >>

\* else if (self.dataSource.connecting): wait for the 'connected' event
ConnectWaiting(c, hasCb) ==
  /\ listeners' = Append(listeners, c)
  /\ callers' = Called(c, hasCb, "waiting", "waiting", "none", 0)
  /\ UNCHANGED << settings, bucketName, mixinFails, debug, models, connVars, dsConnecting, ticks, calls >>

SetupWithoutMixin ==
  /\ DataAccessObject' = DataAccessObject \cup BoundNames
  /\ published' = TRUE
  /\ mixed' = mixed
  /\ setups' = setups + 1

SetupTogglesPublished ==
  /\ DataAccessObject' = DataAccessObject \cup BoundNames
  /\ published' = ~published
  /\ mixed' = mixed \cup {<<m, "setup">> : m \in models}
  /\ setups' = setups + 1

\* setupDataAccessObject: bind the entries, publish the table, mix it into
\* every model of this._models
SetupDataAccessObject ==
  /\ DataAccessObject' = DataAccessObject \cup BoundNames
  /\ published' = TRUE
  /\ mixed' = mixed \cup {<<m, "setup">> : m \in models}
  /\ setups' = setups + 1

\* new minio.Client(validOptions) throws: nothing catches it, it leaves connect()
ConnectBuildThrowsKeepsClient(c, hasCb) ==
  /\ thrown < MaxThrows
  /\ thrown' = thrown + 1
  /\ connector' = TRUE
  /\ lastOptions' = ValidOptions(settings)
  /\ client' = constructed + 1
  /\ callers' = Called(c, hasCb, "threw", "build", "constructor", 0)
  /\ UNCHANGED << settings, bucketName, mixinFails, debug, models, constructed, DataAccessObject, published,
                  setups, mixed, dsConnecting, listeners, ticks, calls >>

ConnectBuildThrows(c, hasCb) ==
  /\ thrown < MaxThrows
  /\ thrown' = thrown + 1
  /\ connector' = TRUE
  /\ lastOptions' = ValidOptions(settings)
  /\ callers' = Called(c, hasCb, "threw", "build", "constructor", 0)
  /\ UNCHANGED << settings, bucketName, mixinFails, debug, models, client, constructed, DataAccessObject,
                  published, setups, mixed, dsConnecting, listeners, ticks, calls >>

\* the client is built, the table set up, and callback(null, self.client) called at
\* once; with no callback that last call is a TypeError
ConnectBuildOk(c, hasCb) ==
  /\ connector' = TRUE
  /\ lastOptions' = ValidOptions(settings)
  /\ client' = constructed + 1
  /\ constructed' = constructed + 1
  /\ SetupDataAccessObject
  /\ callers' = IF hasCb
                THEN Called(c, hasCb, "notified", "build", "null", constructed + 1)
                ELSE Called(c, hasCb, "threw", "build", "TypeError", 0)
  /\ UNCHANGED << settings, bucketName, mixinFails, debug, models, thrown, dsConnecting, listeners, ticks, calls >>

\* the client is built and stored, the table bound and published, and the
\* host's mixin raises for model k: the models before k are mixed, nothing
\* catches the exception and it leaves connect()
ConnectBuildMixinThrows(c, hasCb) ==
  /\ connector' = TRUE
  /\ lastOptions' = ValidOptions(settings)
  /\ client' = constructed + 1
  /\ constructed' = constructed + 1
  /\ DataAccessObject' = DataAccessObject \cup BoundNames
  /\ published' = TRUE
  /\ \E k \in models : mixed' = mixed \cup {<<m, "setup">> : m \in {x \in models : x < k}}
  /\ setups' = setups + 1
  /\ callers' = Called(c, hasCb, "threw", "build", "mixin", 0)
  /\ UNCHANGED << settings, bucketName, mixinFails, debug, models, thrown, dsConnecting, listeners, ticks, calls >>

\* the outcomes of the else branch: the constructor throws, the host's mixin
\* raises in setupDataAccessObject, or neither
ConnectBuild(c, hasCb) ==
  \E outcome \in {"ok", "constructor"}
                   \cup (IF mixinFails /\ models # {} THEN {"mixin"} ELSE {}) :
    IF outcome = "ok" THEN ConnectBuildOk(c, hasCb)
    ELSE IF outcome = "constructor" THEN ConnectBuildThrows(c, hasCb)
    ELSE ConnectBuildMixinThrows(c, hasCb)

\* the body of MinioDB.prototype.connect(callback), run for c
ConnectBody(c, hasCb) ==
  /\ callers[c].st = "idle"
  /\ IF client # 0 THEN ConnectReady(c, hasCb)
     ELSE IF dsConnecting THEN ConnectWaiting(c, hasCb)
     ELSE ConnectBuild(c, hasCb)

ConnectIgnoresClient(c, hasCb) ==
  /\ callers[c].st = "idle"
  /\ IF dsConnecting THEN ConnectWaiting(c, hasCb) ELSE ConnectBuild(c, hasCb)
  /\ UNCHANGED init

\* MinioDB.prototype.connect(callback), called by c
Connect(c, hasCb) ==
  /\ ConnectBody(c, hasCb)
  /\ UNCHANGED init

(* ---------------------------- initialize ----------------------------- *)

\* nothing has used the connector yet: initialize() runs right after the
\* constructor, on a data source that is not connecting
Fresh ==
  /\ init = "pending"
  /\ \A c \in Callers : callers[c].st = "idle"
  /\ client = 0 /\ thrown = 0 /\ models = {} /\ ~dsConnecting
  /\ ticks = << >> /\ listeners = << >> /\ calls = << >>

\* if (s.lazyConnect) process.nextTick(function() { callback(); })
InitializeLazy ==
  /\ ticks' = Append(ticks, 1)
  /\ callers' = Called(1, TRUE, "scheduled", "lazy", "none", 0)
  /\ UNCHANGED << settings, bucketName, mixinFails, debug, models, connVars, dsConnecting, listeners, calls >>

InitializeAlwaysLazy(hasCb) ==
  /\ Fresh
  /\ init' = IF hasCb THEN "callback" ELSE "plain"
  /\ IF hasCb THEN InitializeLazy
     ELSE UNCHANGED << settings, bucketName, mixinFails, debug, models, connVars, dsConnecting, listeners,
                       ticks, callers, calls >>

InitializeIgnoresLazy(hasCb) ==
  /\ Fresh
  /\ init' = IF hasCb THEN "callback" ELSE "plain"
  /\ IF hasCb
     THEN ConnectBody(1, TRUE)
     ELSE UNCHANGED << settings, bucketName, mixinFails, debug, models, connVars, dsConnecting, listeners,
                       ticks, callers, calls >>

\* exports.initialize(dataSource, callback), after new MinioDB(s, dataSource): a
\* callback given, it is deferred when lazyConnect is set and handed to connect()
\* otherwise; the callback is caller 1's
Initialize(hasCb) ==
  /\ Fresh
  /\ init' = IF hasCb THEN "callback" ELSE "plain"
  /\ IF hasCb
     THEN IF Truthy(settings, "lazyConnect") THEN InitializeLazy
          ELSE ConnectBody(1, TRUE)
     ELSE UNCHANGED << settings, bucketName, mixinFails, debug, models, connVars, dsConnecting, listeners,
                       ticks, callers, calls >>

\* what a deferred callback hands over: self.client as it is when the tick runs
TickHandle == client

\* a process.nextTick callback: if (callback) callback(null, self.client), or
\* initialize's callback()
RunTick ==
  /\ ticks # << >>
  /\ LET c == Head(ticks) IN
       callers' = [callers EXCEPT ![c] =
                     IF callers[c].branch = "lazy"
                     THEN [@ EXCEPT !.st = "called"]
                     ELSE IF callers[c].cb
                     THEN [@ EXCEPT !.st = "notified", !.err = "null", !.handle = TickHandle]
                     ELSE [@ EXCEPT !.st = "done"]]
  /\ ticks' = Tail(ticks)
  /\ UNCHANGED << settings, bucketName, mixinFails, debug, init, models, connVars, dsConnecting, listeners, calls >>

(* ------------------------- the host data source ---------------------- *)

\* the host sets or clears dataSource.connecting
HostSetConnecting ==
  /\ dsConnecting' = ~dsConnecting
  /\ UNCHANGED << settings, bucketName, mixinFails, debug, init, models, connVars, listeners, ticks, callers, calls >>

\* the host creates a model on the data source: this._models gains it, and the
\* host's mixin copies dataSource.DataAccessObject, once published, into it;
\* models are numbered in the order of their creation
HostDefineModel(m) ==
  /\ m = Cardinality(models) + 1
  /\ models' = models \cup {m}
  /\ mixed' = IF published THEN mixed \cup {<<m, "define">>} ELSE mixed
  /\ UNCHANGED << settings, bucketName, mixinFails, debug, init, client, constructed, thrown, lastOptions,
                  DataAccessObject, published, setups, connector, dsConnecting,
                  listeners, ticks, callers, calls >>

\* the host emits 'connected': every once-listener runs and defers its callback
HostEmitConnected ==
  /\ listeners # << >>
  /\ ticks' = ticks \o listeners
  /\ listeners' = << >>
  /\ callers' = [c \in Callers |->
                   IF \E i \in DOMAIN listeners : listeners[i] = c
                   THEN [callers[c] EXCEPT !.st = "scheduled"] ELSE callers[c]]
  /\ UNCHANGED << settings, bucketName, mixinFails, debug, init, models, connVars, dsConnecting, calls >>

Next ==
  \/ \E hasCb \in BOOLEAN : Initialize(hasCb)
  \/ \E c \in Callers, hasCb \in BOOLEAN : Connect(c, hasCb)
  \/ RunTick
  \/ HostSetConnecting
  \/ HostEmitConnected
  \/ \E m \in Models : HostDefineModel(m)

Spec == Init /\ [][Next]_vars

(* ----------------------- forwarding method calls --------------------- *)

\* one invocation: what the caller passed and holds, what was logged, and what
\* the client was asked and did
NewCall(op, cb, a, dbg) ==
  [ op      |-> op,
    cb      |-> cb,                      \* a trailing callback was passed
    args    |-> a,                       \* the arguments the caller passed
    bound   |-> op \in DataAccessObject, \* the table has the entry
    handle  |-> client,                  \* self.client as the method found it
    ret     |-> Returns(op),             \* "promise", "undefined" or "threw"
    promise |-> "none",                  \* the promise the caller was handed
    orphan  |-> "none",                  \* a promise nobody was handed
    cbGot   |-> "none",                  \* what the caller's callback was given
    value   |-> "none",                  \* success payload that reached the caller
    cause   |-> "none",                  \* error that reached the caller
    trace   |-> IF dbg THEN << "debug" >> ELSE << >>,
                                         \* in order: "debug" the method's log entry,
                                         \* "call" a client call, "error" g.error
    elog    |-> << >>,                   \* what each g.error entry was given
    umethod |-> "none",                  \* the client method called
    uargs   |-> << >>,                   \* the arguments it was called with
    under   |-> "none",                  \* the client call: none, inflight, returned,
                                         \* threw, ok, err
    uret    |-> "none",                  \* what the client call returned
    uval    |-> "none",                  \* what the client call produced
    uerr    |-> "none",                  \* what the client call failed with
    later   |-> << >>,                   \* what the completion callback was given
                                         \* when invoked again
    on      |-> {} ]                     \* stream events the method listens to

\* self.client.<method>(...) is entered
Issued(r) ==
  [r EXCEPT !.trace = Append(@, "call"),
            !.umethod = ClientMethod(r.op),
            !.uargs = ClientArgs(r.op, r.args)]

\* a throw before any promise exists leaves the method: new self.client.Policy()
\* in presignedPostPolicy, self.client.getBucketVersioning in getBucketVersioning
ThrowsToCaller(op, cb, a, dbg, err) ==
  [NewCall(op, cb, a, dbg) EXCEPT !.ret = "threw", !.cause = err]

\* a throw inside the promise executor rejects that promise
RejectsAtOnce(op, cb, a, dbg, err) ==
  IF op \in UnreturnedPromiseMethods
  THEN [NewCall(op, cb, a, dbg) EXCEPT !.orphan = "rejected"]
  ELSE [NewCall(op, cb, a, dbg) EXCEPT !.promise = "rejected", !.cause = err]

\* the client method itself throws: out of the method where no promise wraps
\* the call, into the promise's rejection where one does
ClientThrows(op, cb, a, dbg, err) ==
  LET r == IF op \in CallbackStyleMethods
           THEN ThrowsToCaller(op, cb, a, dbg, err)
           ELSE RejectsAtOnce(op, cb, a, dbg, err)
  IN [Issued(r) EXCEPT !.under = "threw", !.uerr = err]

ReturnsStreamDrained(op, cb, a, dbg) ==
  [Issued(NewCall(op, cb, a, dbg)) EXCEPT
     !.under = "returned", !.uret = "stream", !.uval = "stream",
     !.promise = "pending", !.on = {"data", "end", "error"}]

\* a stream method resolves with what the client call returned
ReturnsStream(op, cb, a, dbg) ==
  [Issued(NewCall(op, cb, a, dbg)) EXCEPT
     !.under = "returned", !.uret = "stream", !.uval = "stream",
     !.promise = "fulfilled", !.value = "stream"]

\* a client that takes a function argument for its completion callback returns
\* nothing and calls that function later; the method resolves with the nothing
AdoptsCallback(op, cb, a, dbg) ==
  [Issued(NewCall(op, cb, a, dbg)) EXCEPT
     !.under = "inflight", !.uret = "undefined",
     !.promise = "fulfilled", !.value = "undefined"]

IssuesCallSettled(op, cb, a, dbg) ==
  [Issued(NewCall(op, cb, a, dbg)) EXCEPT
     !.under = "inflight", !.promise = "fulfilled", !.value = "void"]

IssuesCallUnlessDebug(op, cb, a, dbg) ==
  IF dbg
  THEN [NewCall(op, cb, a, dbg) EXCEPT !.promise = "fulfilled", !.value = "void"]
  ELSE [Issued(NewCall(op, cb, a, dbg)) EXCEPT !.under = "inflight", !.promise = "pending"]

\* a callback-terminated method issues the client call and waits
IssuesCall(op, cb, a, dbg) ==
  IF op \in CallbackStyleMethods
  THEN [Issued(NewCall(op, cb, a, dbg)) EXCEPT !.under = "inflight"]
  ELSE IF op \in UnreturnedPromiseMethods
  THEN [Issued(NewCall(op, cb, a, dbg)) EXCEPT !.under = "inflight", !.orphan = "pending"]
  ELSE [Issued(NewCall(op, cb, a, dbg)) EXCEPT !.under = "inflight", !.promise = "pending"]

\* the records a call of op can start as: self.client may be absent, the policy
\* constructor of presignedPostPolicy may throw, the client method may throw, and
\* a stream method's client may take the caller's callback for its own
Invoked(op, cb, a, dbg) ==
  IF client = 0
  THEN IF op \in PreparingMethods \cup CallbackStyleMethods
       THEN {ThrowsToCaller(op, cb, a, dbg, "TypeError")}
       ELSE {RejectsAtOnce(op, cb, a, dbg, "TypeError")}
  ELSE IF op \in PreparingMethods
       THEN {ThrowsToCaller(op, cb, a, dbg, "TypeError"), IssuesCall(op, cb, a, dbg)}
              \cup {ClientThrows(op, cb, a, dbg, e) : e \in ClientErrors}
  ELSE IF op \in StreamMethods
       THEN {ReturnsStream(op, cb, a, dbg)}
              \cup {ClientThrows(op, cb, a, dbg, e) : e \in ClientErrors}
              \cup IF ForwardsCallback(op, a) THEN {AdoptsCallback(op, cb, a, dbg)} ELSE {}
  ELSE {IssuesCall(op, cb, a, dbg)}
         \cup {ClientThrows(op, cb, a, dbg, e) : e \in ClientErrors}

\* a caller invokes a forwarding method, through the table or on the connector,
\* as one of at most n invocations
InvokeWithin(op, cb, n) ==
  /\ Len(calls) < n
  /\ \E a \in Arguments(op, cb) :
       \E r \in Invoked(op, cb, a, debug) : calls' = Append(calls, r)
  /\ UNCHANGED << settings, bucketName, mixinFails, debug, init, models, connVars, dsConnecting, listeners,
                  ticks, callers >>

InvokeRebuildsClient(op, cb) ==
  /\ Len(calls) < MaxCalls
  /\ \E a \in Arguments(op, cb) :
       \E r \in Invoked(op, cb, a, debug) : calls' = Append(calls, r)
  /\ client' = constructed + 1
  /\ constructed' = constructed + 1
  /\ UNCHANGED << settings, bucketName, mixinFails, debug, init, models, thrown, lastOptions,
                  DataAccessObject, published, setups, connector, mixed, dsConnecting,
                  listeners, ticks, callers >>

Invoke(op, cb) == InvokeWithin(op, cb, MaxCalls)

\* the completion callback's else branch: resolve(...), or callback(null, data);
\* for a stream method, the caller's own callback taken over by the client
Succeeded(r, v, dbg) ==
  IF r.op \in StreamMethods
  THEN [r EXCEPT !.under = "ok", !.uval = v, !.cbGot = "value"]
  ELSE IF r.op \in CallbackStyleMethods
  THEN IF r.cb
       THEN [r EXCEPT !.under = "ok", !.uval = v, !.cbGot = "value", !.value = v]
       ELSE [r EXCEPT !.under = "ok", !.uval = v]
  ELSE IF r.op \in UnreturnedPromiseMethods
  THEN [r EXCEPT !.under = "ok", !.uval = v, !.orphan = "fulfilled"]
  ELSE [r EXCEPT !.under = "ok", !.uval = v, !.promise = "fulfilled",
                 !.value = ResolvedValue(r.op, v)]

\* if (self.debug) g.error(...) in the completion callback's if (err) branch
\* with self.settings.endpoint and err as the entry's values
Logged(r, e, dbg) ==
  IF dbg
  THEN [r EXCEPT !.trace = Append(@, "error"),
                 !.elog = Append(@, [endpoint |-> Setting(settings, "endpoint"),
                                     err |-> e])]
  ELSE r

\* the completion callback's if (err) branch: reject(err), or callback(err);
\* for a stream method, the caller's own callback taken over by the client
Failed(r, e, dbg) ==
  IF r.op \in StreamMethods
  THEN [r EXCEPT !.under = "err", !.uerr = e, !.cbGot = "error"]
  ELSE IF r.op \in CallbackStyleMethods
  THEN IF r.cb
       THEN [Logged(r, e, dbg) EXCEPT !.under = "err", !.uerr = e, !.cbGot = "error",
                                   !.cause = e]
       ELSE [Logged(r, e, dbg) EXCEPT !.under = "err", !.uerr = e]
  ELSE IF r.op \in UnreturnedPromiseMethods
  THEN [Logged(r, e, dbg) EXCEPT !.under = "err", !.uerr = e, !.orphan = "rejected"]
  ELSE [Logged(r, e, dbg) EXCEPT !.under = "err", !.uerr = e, !.promise = "rejected",
                              !.cause = e]

CompleteSettlesAll(i) ==
  /\ i \in DOMAIN calls
  /\ calls[i].under = "inflight"
  /\ \/ \E v \in ClientValuesOf(calls[i].op) :
          calls' = [j \in DOMAIN calls |->
                      IF calls[j].under = "inflight"
                      THEN Succeeded(calls[j], v, debug) ELSE calls[j]]
     \/ \E e \in ClientErrors :
          calls' = [j \in DOMAIN calls |->
                      IF calls[j].under = "inflight"
                      THEN Failed(calls[j], e, debug) ELSE calls[j]]
  /\ UNCHANGED << settings, bucketName, mixinFails, debug, init, models, connVars, dsConnecting, listeners,
                  ticks, callers >>

CompleteResetsClient(i) ==
  /\ i \in DOMAIN calls
  /\ calls[i].under = "inflight"
  /\ \/ /\ \E v \in ClientValuesOf(calls[i].op) :
            calls' = [calls EXCEPT ![i] = Succeeded(calls[i], v, debug)]
        /\ client' = client
     \/ /\ \E e \in ClientErrors :
            calls' = [calls EXCEPT ![i] = Failed(calls[i], e, debug)]
        /\ client' = 0
  /\ UNCHANGED << settings, bucketName, mixinFails, debug, init, models, constructed, thrown,
                  lastOptions, DataAccessObject, published, setups, connector, mixed,
                  dsConnecting, listeners, ticks, callers >>

\* the client invokes the completion callback of call i
Complete(i) ==
  /\ i \in DOMAIN calls
  /\ calls[i].under = "inflight"
  /\ \/ \E v \in ClientValuesOf(calls[i].op) :
          calls' = [calls EXCEPT ![i] = Succeeded(calls[i], v, debug)]
     \/ \E e \in ClientErrors :
          calls' = [calls EXCEPT ![i] = Failed(calls[i], e, debug)]
  /\ UNCHANGED << settings, bucketName, mixinFails, debug, init, models, connVars, dsConnecting, listeners,
                  ticks, callers >>

\* the local data source with settings.debug set or not, and the debug module
\* enabled or not
InitOps ==
  \E flags \in SUBSET {"debug"}, enabled \in BOOLEAN :
    InitWith(LocalSettings(flags), enabled)

NextOps ==
  \/ Connect(1, TRUE)
  \/ \E op \in PrototypeMethods, cb \in BOOLEAN : Invoke(op, cb)
  \/ \E i \in 1..MaxCalls : Complete(i)

SpecOps == InitOps /\ [][NextOps]_vars

(* ------------------- a connected connector in use -------------------- *)

\* operations of the three shapes: promise, stream, promise not returned
ReadyOperations == {"removeObject", "getObject", "setBucketVersioning"}

InitReady == InitWith(LocalSettings({}), FALSE)

NextReady ==
  \/ \E c \in Callers : Connect(c, TRUE)
  \/ RunTick
  \/ HostSetConnecting
  \/ HostEmitConnected
  \/ \E op \in ReadyOperations : Invoke(op, FALSE)
  \/ \E i \in 1..MaxCalls : Complete(i)

SpecReady == InitReady /\ [][NextReady]_vars

(* ---------------------- several calls in flight ---------------------- *)

FlightOperations == {"putObject", "statObject"}

NextFlight ==
  \/ Connect(1, TRUE)
  \/ \E op \in FlightOperations : InvokeWithin(op, FALSE, MaxInFlight)
  \/ \E i \in 1..MaxInFlight : Complete(i)

SpecFlight == InitReady /\ [][NextFlight]_vars

(* ------------- a completion callback invoked more than once ---------- *)

\* the else branch run again: resolve(...) on a settled promise does nothing;
\* callback(null, data) of a callback-style method calls the caller again
SucceededAgain(r, v, dbg) ==
  IF r.op \in CallbackStyleMethods /\ r.cb
  THEN [r EXCEPT !.later = Append(@, << "ok", v >>), !.cbGot = "value", !.value = v]
  ELSE [r EXCEPT !.later = Append(@, << "ok", v >>)]

\* the if (err) branch run again: the entry is logged, reject(err) on a settled
\* promise does nothing; callback(err) of a callback-style method calls the
\* caller again
FailedAgain(r, e, dbg) ==
  IF r.op \in CallbackStyleMethods /\ r.cb
  THEN [Logged(r, e, dbg) EXCEPT !.later = Append(@, << "err", e >>),
                                 !.cbGot = "error", !.cause = e]
  ELSE [Logged(r, e, dbg) EXCEPT !.later = Append(@, << "err", e >>)]

CompleteAgainResettles(i) ==
  /\ i \in DOMAIN calls
  /\ calls[i].under \in {"ok", "err"}
  /\ calls[i].op \notin StreamMethods
  /\ Len(calls[i].later) < MaxRepeats
  /\ \/ \E v \in ClientValuesOf(calls[i].op) :
          calls' = [calls EXCEPT ![i] =
                      [Succeeded(calls[i], v, debug) EXCEPT
                         !.later = Append(@, << "ok", v >>)]]
     \/ \E e \in ClientErrors :
          calls' = [calls EXCEPT ![i] =
                      [Failed(calls[i], e, debug) EXCEPT
                         !.later = Append(@, << "err", e >>)]]
  /\ UNCHANGED << settings, bucketName, mixinFails, debug, init, models, connVars, dsConnecting, listeners,
                  ticks, callers >>

\* the client invokes the completion callback of call i once more, after the
\* invocation that settled it
CompleteAgain(i) ==
  /\ i \in DOMAIN calls
  /\ calls[i].under \in {"ok", "err"}
  /\ calls[i].op \notin StreamMethods
  /\ Len(calls[i].later) < MaxRepeats
  /\ \/ \E v \in ClientValuesOf(calls[i].op) :
          calls' = [calls EXCEPT ![i] = SucceededAgain(calls[i], v, debug)]
     \/ \E e \in ClientErrors :
          calls' = [calls EXCEPT ![i] = FailedAgain(calls[i], e, debug)]
  /\ UNCHANGED << settings, bucketName, mixinFails, debug, init, models, connVars, dsConnecting, listeners,
                  ticks, callers >>

RepeatOperations == {"listBuckets", "removeObject", "statObject", "setBucketVersioning"}

NextRepeat ==
  \/ Connect(1, TRUE)
  \/ \E op \in RepeatOperations : Invoke(op, FALSE)
  \/ \E i \in 1..MaxCalls : Complete(i)
  \/ \E i \in 1..MaxCalls : CompleteAgain(i)

SpecRepeat == InitOps /\ [][NextRepeat]_vars

(* ------------------- the table set up more than once ----------------- *)

\* connector.setupDataAccessObject() called on a connector that holds a client
SetupAgain ==
  /\ client # 0
  /\ setups < MaxSetups
  /\ SetupDataAccessObject
  /\ UNCHANGED << settings, bucketName, mixinFails, debug, init, models, client, constructed,
                  thrown, lastOptions, connector, dsConnecting, listeners, ticks,
                  callers, calls >>

NextSetup ==
  \/ \E c \in Callers, hasCb \in BOOLEAN : Connect(c, hasCb)
  \/ RunTick
  \/ \E m \in Models : HostDefineModel(m)
  \/ SetupAgain

SpecSetup == InitReady /\ [][NextSetup]_vars

(* ----------------------- a host whose mixin raises ------------------- *)

InitFault == NewMinioDB(LocalSettings({}), FALSE) /\ mixinFails = TRUE

NextFault ==
  \/ \E c \in Callers, hasCb \in BOOLEAN : Connect(c, hasCb)
  \/ RunTick
  \/ \E m \in Models : HostDefineModel(m)

SpecFault == InitFault /\ [][NextFault]_vars

(* --------------------- the options of the client --------------------- *)

InitOptions ==
  \E K \in SUBSET AllOptionNames, v \in Values : InitWith([k \in K |-> v], FALSE)

NextOptions == Connect(1, TRUE)

SpecOptions == InitOptions /\ [][NextOptions]_vars

(* ============================== claims =============================== *)

\* C1: for every operation of the published table, when the client call
\* completes successfully with value v (or with no value), the caller obtains a
\* success carrying exactly v: the payload is not replaced, dropped or invented.
PassThroughSuccess ==
  \A i \in DOMAIN calls :
    (calls[i].bound /\ calls[i].under \in {"ok", "returned"})
      => /\ calls[i].promise = "fulfilled" \/ calls[i].cbGot = "value"
         /\ calls[i].value = calls[i].uval

\* C2: for every operation of the published table called with positional
\* arguments only, when the client call reports error e the caller observes a
\* failed result whose cause is e: never swallowed, never on an unreachable promise.
PassThroughFailure ==
  \A i \in DOMAIN calls :
    (calls[i].bound /\ ~calls[i].cb /\ calls[i].under = "err")
      => /\ calls[i].promise = "rejected"
         /\ calls[i].cause = calls[i].uerr

\* C3: every operation of the published table returns a promise to its caller,
\* whatever the shape of the client call.
EveryOperationReturnsPromise ==
  \A i \in DOMAIN calls : calls[i].bound => calls[i].ret = "promise"

\* C4: once a client handle is stored, no step constructs a client, replaces
\* the handle or touches the published table, and every callback of connect()
\* that is delivered is given that one handle; one client was constructed.
ConnectIdempotentWhenReady ==
  /\ [](client # 0 => (constructed = 1 /\ setups = 1))
  /\ [][client # 0 =>
          /\ client' = client
          /\ constructed' = constructed
          /\ setups' = setups
          /\ DataAccessObject' = DataAccessObject
          /\ published' = published
          /\ \A m \in Models : <<m, "setup">> \in mixed' <=> <<m, "setup">> \in mixed
          /\ \A c \in Callers :
               (callers[c].st # "notified" /\ callers'[c].st = "notified")
                 => callers'[c].handle = client]_vars

\* C4 witness: two further connect() calls made when Ready were both answered
TwoReadyCallsAnswered ==
  \E c1, c2 \in Callers :
    /\ c1 # c2
    /\ callers[c1].branch = "ready" /\ callers[c1].st = "notified"
    /\ callers[c2].branch = "ready" /\ callers[c2].st = "notified"
    /\ callers[c1].handle = client /\ callers[c2].handle = client

WaitingCallerGetsHandle ==
  \A c \in Callers :
    (callers[c].branch = "waiting" /\ callers[c].st = "notified")
      => callers[c].handle # 0

\* C7: when the client constructor throws in connect(), the caller's callback
\* receives the error; the exception does not leave connect() unreported.
ConstructionFailureReported ==
  \A c \in Callers :
    (callers[c].cb /\ callers[c].err = "constructor")
      => callers[c].st = "failed"

\* C8: a connect() whose constructor threw leaves no handle and no table of its
\* own, and a later connect() made in that state (the host not connecting)
\* constructs again and, when the constructor returns, stores the handle and
\* publishes the full table.
RetryAfterFailedConstruction ==
  [][\A c \in Callers :
       /\ (callers[c].st = "idle" /\ callers'[c].err = "constructor")
            => /\ client' = 0
               /\ UNCHANGED << constructed, DataAccessObject, published, setups, mixed >>
       /\ (thrown > 0 /\ client = 0 /\ ~dsConnecting
             /\ callers[c].st = "idle" /\ callers'[c].st # "idle")
            => /\ callers'[c].branch = "build"
               /\ thrown' = thrown + 1 \/ constructed' = constructed + 1
               /\ callers'[c].err # "constructor"
                    => (client' # 0 /\ published' /\ DataAccessObject' = BoundNames)]_vars

\* C8 witness: one caller's construction threw, a later caller's succeeded
RetrySucceeded ==
  \E c1, c2 \in Callers :
    /\ callers[c1].err = "constructor"
    /\ callers[c2].branch = "build" /\ callers[c2].st = "notified"
    /\ client # 0 /\ callers[c2].handle = client
    /\ published /\ DataAccessObject = BoundNames

\* the README's connection properties, the connector's own name left out
ReadmeConnectionProperties ==
  { "endPoint", "port", "accessKey", "secretKey", "useSSL", "sessionToken",
    "region", "transport", "partSize", "pathStyle", "transportAgent" }

\* C9: the record given to the client constructor is the settings restricted to
\* endPoint, port, useSSL, accessKey, secretKey, region, transport, sessionToken,
\* partSize, pathStyle and transportAgent, values unchanged, nothing added.
OptionsAreConnectionProperties ==
  (constructed + thrown > 0)
    => lastOptions = [k \in DOMAIN settings \cap ReadmeConnectionProperties |-> settings[k]]

\* C10: after a successful connect() the published table has an entry for every
\* operation of the README's table and every forwarding method the connector defines.
TableHasEveryOperation ==
  published => (ReadmeOperations \cup PrototypeMethods) \subseteq DataAccessObject

\* C11: when initialize() was given a callback with lazyConnect not set and that
\* callback has fired, the connector holds a client handle and the data source
\* has the published table, with makeBucket and getObject in it.
DataSourceCreated ==
  (init = "callback" /\ ~Truthy(settings, "lazyConnect")
     /\ callers[1].st \in {"notified", "called"})
    => /\ client # 0
       /\ published
       /\ {"makeBucket", "getObject"} \subseteq DataAccessObject

\* C11 witness: initialize() connected and its callback was given the handle
InitializeCallbackFired ==
  /\ init = "callback" /\ ~Truthy(settings, "lazyConnect")
  /\ callers[1].st = "notified" /\ callers[1].handle = client /\ client # 0

\* C12: once the table is published every model of the data source has had the
\* table's operations mixed in: a model registered before the connection by
\* setupDataAccessObject, a model created after it from dataSource.DataAccessObject;
\* no model has them before the table exists.
ModelsExposeOperations ==
  /\ published => /\ BoundNames \subseteq DataAccessObject
                  /\ \A m \in models : \E by \in {"setup", "define"} : <<m, by>> \in mixed
  /\ mixed # {} => published

\* C12 witness: a model registered before the connection carries the operations
\* once connect() has published the table
ModelMixedAtSetup ==
  \E m \in models : <<m, "setup">> \in mixed /\ published /\ client # 0

\* how many times x occurs in the sequence seq
Count(seq, x) == Cardinality({i \in DOMAIN seq : seq[i] = x})

\* C13: makeBucket(bucketName, region) on a connector with a client makes one
\* client call, makeBucket(bucketName, callback) exactly when region is undefined
\* (left out or passed as undefined) and makeBucket(bucketName, region, callback)
\* for every other region, null included.
MakeBucketVariant ==
  \A i \in DOMAIN calls :
    (calls[i].op = "makeBucket" /\ calls[i].handle # 0)
      => /\ Count(calls[i].trace, "call") = 1
         /\ calls[i].umethod = "makeBucket"
         /\ calls[i].uargs =
              IF Arg(calls[i].args, 2) = "undefined"
              THEN << << calls[i].args[1] >>, << "completion" >> >>
              ELSE << << calls[i].args[1] >>, << calls[i].args[2] >>, << "completion" >> >>

\* C13 witness: makeBucket called with region null made the three-argument call
MakeBucketNullRegion ==
  \E i \in DOMAIN calls :
    /\ calls[i].op = "makeBucket" /\ calls[i].handle # 0
    /\ calls[i].args = << "bucketName", "null" >>
    /\ calls[i].uargs = << << "bucketName" >>, << "null" >>, << "completion" >> >>

GetObjectCallbackInvoked ==
  \A i \in DOMAIN calls :
    (calls[i].op = "getObject" /\ calls[i].bound /\ calls[i].cb
       /\ calls[i].under = "returned")
      => calls[i].cbGot = "value"

\* C16: a connect() called without a callback completes without raising, in
\* every state; where it has to build the client (and the constructor returns)
\* it still stores the handle and publishes the table.
ConnectWithoutCallbackCompletes ==
  \A c \in Callers :
    (~callers[c].cb /\ callers[c].st # "idle" /\ callers[c].err # "constructor")
      => /\ callers[c].st # "threw"
         /\ callers[c].branch = "build" => (client # 0 /\ published)

\* C17: no operation of the published table throws to its caller: whatever
\* fails, the caller is handed a result and learns of the failure through it.
NoSynchronousThrow ==
  \A i \in DOMAIN calls : calls[i].bound => calls[i].ret # "threw"

\* C18: an invocation made with a client handle makes exactly one call of the
\* client method: never a second one after a failure, never none.
ExactlyOneUnderlyingCall ==
  \A i \in DOMAIN calls :
    calls[i].handle # 0 => Count(calls[i].trace, "call") = 1

\* C19 as stated: the promise a callback-terminated operation returned is pending
\* exactly as long as the client has not invoked the completion callback.
PendingUntilCallback ==
  \A i \in DOMAIN calls :
    (calls[i].handle # 0 /\ calls[i].ret = "promise" /\ calls[i].op \notin StreamMethods)
      => (calls[i].promise = "pending" <=> calls[i].under \notin {"ok", "err"})

\* C19, amended: the promise a callback-terminated operation returned is pending
\* exactly while the client call is in flight, and is settled in the step the
\* completion callback runs, fulfilled on success and rejected with the
\* callback's error; only a client call that itself throws settles it without
\* the callback, rejecting it at once with what was thrown.
PendingWhileInFlight ==
  \A i \in DOMAIN calls :
    (calls[i].handle # 0 /\ calls[i].ret = "promise" /\ calls[i].op \notin StreamMethods)
      => /\ calls[i].promise = "pending" <=> calls[i].under = "inflight"
         /\ calls[i].under = "ok" => calls[i].promise = "fulfilled"
         /\ calls[i].under \in {"err", "threw"}
              => (calls[i].promise = "rejected" /\ calls[i].cause = calls[i].uerr)

\* C19 witness: statObject's completion callback has run and its promise is settled
StatObjectSettled ==
  \E i \in DOMAIN calls :
    /\ calls[i].op = "statObject" /\ calls[i].handle # 0
    /\ calls[i].under = "ok" /\ calls[i].promise = "fulfilled"

IsCall(x) == x = "call"

\* an invocation with its log entries left out
Quiet(r) == [r EXCEPT !.trace = SelectSeq(@, IsCall), !.elog = << >>]

\* C20: every step of an invocation made with self.debug as it is could have
\* been made, with the same client call and the same result for the caller,
\* with self.debug the other way: the two differ in log entries only.  With
\* self.debug set the method's entry is the first event of the invocation,
\* ahead of the client call; with it clear nothing is logged.
DebugOnlyAddsLogEntries ==
  [][/\ Len(calls') > Len(calls)
          => LET r == calls'[Len(calls')] IN
               /\ Quiet(r) \in {Quiet(x) : x \in Invoked(r.op, r.cb, r.args, ~debug)}
               /\ debug => (r.trace # << >> /\ r.trace[1] = "debug")
               /\ ~debug => r.trace = SelectSeq(r.trace, IsCall)
     /\ \A i \in DOMAIN calls :
          calls'[i] # calls[i]
            => /\ \/ \E v \in ClientValuesOf(calls[i].op) :
                       Quiet(calls'[i]) = Quiet(Succeeded(calls[i], v, ~debug))
                  \/ \E e \in ClientErrors :
                       Quiet(calls'[i]) = Quiet(Failed(calls[i], e, ~debug))
               /\ ~debug => calls'[i].trace = calls[i].trace]_vars

\* C20 witness: with self.debug set, removeBucket logged its entry, then called
\* the client, then logged the failure the caller was given
RemoveBucketLoggedThenCalled ==
  \E i \in DOMAIN calls :
    /\ debug /\ calls[i].op = "removeBucket"
    /\ calls[i].trace = << "debug", "call", "error" >>
    /\ calls[i].promise = "rejected" /\ calls[i].cause = calls[i].uerr

\* C21: with diagnostics enabled, when the client call of an operation fails
\* with an error, the operation's failure log entry carries the value of the
\* configured endPoint setting together with that error.
FailureLogCarriesEndPoint ==
  \A i \in DOMAIN calls :
    (debug /\ calls[i].under = "err" /\ calls[i].op \notin StreamMethods)
      => \E j \in DOMAIN calls[i].elog :
           /\ calls[i].elog[j].endpoint = Setting(settings, "endPoint")
           /\ calls[i].elog[j].err = calls[i].uerr

\* C22: a step in which a forwarded operation is invoked on a connector that
\* holds a client, or in which its client call completes with either outcome,
\* leaves the client handle, the settings record, the default bucket name and
\* the published table as they were.
OperationsLeaveConnectorAlone ==
  [][(client # 0 /\ calls' # calls)
       => /\ client' = client
          /\ settings' = settings
          /\ bucketName' = bucketName
          /\ DataAccessObject' = DataAccessObject
          /\ published' = published]_vars

\* C22 witness: setBucketPolicy was invoked on a connector holding a client,
\* its client call failed, and the connector still holds that client and
\* publishes its table
SetBucketPolicyFailedInReady ==
  \E i \in DOMAIN calls :
    /\ calls[i].op = "setBucketPolicy" /\ calls[i].under = "err"
    /\ calls[i].handle # 0 /\ client = calls[i].handle
    /\ published /\ DataAccessObject = BoundNames

\* C23: once the connector holds a client handle, no step (a connect() call by
\* any caller, a deferred callback, the host's connecting flag changing, an
\* operation invoked, a client call that fails or succeeds) clears the handle
\* or replaces it with another one, and no connect() call is made to wait for
\* a connection again.
ReadyIsTerminal ==
  [][client # 0 => /\ client' = client
                   /\ Len(listeners') <= Len(listeners)]_vars

\* C23 witness: a construction failed, a later connect() built the client, a
\* further connect() was answered with it from the ready branch, and an
\* operation's client call failed, all with the same handle still stored
ReadySurvivedUse ==
  /\ client # 0 /\ thrown > 0 /\ dsConnecting
  /\ \E c \in Callers :
       /\ callers[c].branch = "ready" /\ callers[c].st = "notified"
       /\ callers[c].handle = client
  /\ \E i \in DOMAIN calls : calls[i].under = "err" /\ calls[i].handle = client

NotCallback(x) == x # "callback"

\* C24: when an operation is invoked with a value for each of its parameters,
\* the client method is called with exactly those values, each as it was
\* received and in the same order, followed only by the method's completion
\* callback (a stream method adds none); a callback the caller passed is left
\* out of the comparison.
ArgumentsForwardedUnchanged ==
  \A i \in DOMAIN calls :
    (calls[i].umethod # "none" /\ calls[i].args = Params(calls[i].op))
      => LET received == SelectSeq(calls[i].args, NotCallback)
             forwarded == [k \in 1..Len(received) |-> << received[k] >>]
         IN calls[i].uargs =
              IF calls[i].op \in StreamMethods
              THEN forwarded ELSE forwarded \o << << "completion" >> >>

\* the models that have the operations
MixedModels(mx) == {m \in Models : \E by \in {"setup", "define"} : <<m, by>> \in mx}

\* C25: when setupDataAccessObject runs again on a connector that holds a
\* client, the table has the same set of names as before, the connector is
\* still the one they are bound to, the data source still points at the table,
\* the same models have the operations, and the client handle is the same.
SecondSetupChangesNothing ==
  [][(client # 0 /\ setups' > setups)
       => /\ DataAccessObject' = DataAccessObject /\ DataAccessObject' = BoundNames
          /\ published' /\ published
          /\ connector' = connector
          /\ client' = client
          /\ MixedModels(mixed') = MixedModels(mixed)]_vars

\* C25 witness: the table was set up a second time with a model defined after
\* the first setup: the model got the operations at its definition and was
\* mixed again by the second setup
SetupRanTwiceOverModel ==
  /\ client # 0 /\ setups = 2
  /\ <<1, "define">> \in mixed /\ <<1, "setup">> \in mixed
  /\ published /\ DataAccessObject = BoundNames

\* C26: with several operations in flight, the client may complete any of them
\* next, whatever the state of the others; a completion changes the record of
\* its own call only, and settles that call's promise with the value or the
\* error of that call's own client call.
CompletionsAreIndependent ==
  /\ [](\A j \in DOMAIN calls : calls[j].under = "inflight" => ENABLED Complete(j))
  /\ [][\A i \in DOMAIN calls :
          calls'[i] # calls[i]
            => /\ calls[i].under = "inflight" /\ calls[i].promise = "pending"
               /\ \A j \in DOMAIN calls : j # i => calls'[j] = calls[j]
               /\ \/ /\ calls'[i].under = "ok" /\ calls'[i].promise = "fulfilled"
                     /\ calls'[i].value = calls'[i].uval
                  \/ /\ calls'[i].under = "err" /\ calls'[i].promise = "rejected"
                     /\ calls'[i].cause = calls'[i].uerr]_vars

\* C26 witness: of two calls in flight the second was completed first, with an
\* error, and its promise rejected, while the first is still in flight with its
\* promise pending
SecondCompletedFirst ==
  /\ Len(calls) = 2
  /\ calls[1].under = "inflight" /\ calls[1].promise = "pending"
  /\ calls[2].under = "err" /\ calls[2].promise = "rejected"
  /\ calls[2].cause = calls[2].uerr

\* C27: in every state in which the connector holds a client handle the table
\* is published, dataSource.DataAccessObject being the connector's table with
\* every operation, and every model registered on the connector has the
\* operations mixed in, also after the host's mixin raised during connect().
HandleImpliesPublished ==
  client # 0
    => /\ published /\ DataAccessObject = BoundNames
       /\ \A m \in models : m \in MixedModels(mixed)

\* C28: the step of initialize() constructs a client (or has the constructor
\* throw) exactly when it was given a callback and lazyConnect is not set; given
\* a callback with lazyConnect set it only defers the callback, which a later
\* tick calls with no error and no handle; given no callback it changes nothing
\* and notifies nobody, whatever lazyConnect is. A connector that initialize()
\* left without a client gets one only in a step of connect().
InitializeConnectsOnlyEagerly ==
  [][/\ (init = "pending" /\ init' # "pending")
          => /\ (constructed' + thrown' > constructed + thrown)
                  <=> (init' = "callback" /\ ~Truthy(settings, "lazyConnect"))
             /\ (init' = "callback" /\ Truthy(settings, "lazyConnect"))
                  => /\ client' = 0 /\ ~published'
                     /\ ticks' = << 1 >>
                     /\ callers'[1].st = "scheduled" /\ callers'[1].branch = "lazy"
             /\ init' = "plain"
                  => /\ client' = 0 /\ ~published'
                     /\ ticks' = ticks /\ listeners' = listeners
                     /\ callers' = callers
     /\ (callers[1].branch = "lazy" /\ callers'[1].st # callers[1].st)
          => /\ callers'[1].st = "called"
             /\ callers'[1].err = "none" /\ callers'[1].handle = 0
             /\ client' = client
     /\ (init' = init /\ client = 0 /\ client' # 0)
          => \E c \in Callers :
               callers[c].st = "idle" /\ callers'[c].branch = "build"]_vars

\* C28 witness: initialize() was given a callback with lazyConnect set, the
\* callback has been called, and the connector still holds no client
LazyCallbackCalledWhileAbsent ==
  /\ init = "callback" /\ Truthy(settings, "lazyConnect")
  /\ callers[1].branch = "lazy" /\ callers[1].st = "called"
  /\ client = 0 /\ constructed = 0 /\ ~published

\* C29: a promise that an operation returned and that is settled stays as it
\* is in every later step: when the client invokes the completion callback
\* again, with the same or another outcome, the promise keeps the state, the
\* value and the error of the first invocation.
PromiseSettlesOnce ==
  [][\A i \in DOMAIN calls :
       calls[i].promise \in {"fulfilled", "rejected"}
         => /\ calls'[i].promise = calls[i].promise
            /\ calls'[i].value = calls[i].value
            /\ calls'[i].cause = calls[i].cause]_vars

\* C29 witness: the completion callback of removeObject was invoked with an
\* error and then again with a success; the promise is rejected with the error
RejectedThenCalledWithSuccess ==
  \E i \in DOMAIN calls :
    /\ calls[i].op = "removeObject"
    /\ calls[i].under = "err" /\ calls[i].later # << >> /\ calls[i].later[1][1] = "ok"
    /\ calls[i].promise = "rejected" /\ calls[i].cause = calls[i].uerr
    /\ calls[i].value = "none"

\* C30: an operation invoked while the connector holds no client makes no
\* client call and hands its caller a promise that is rejected: it neither
\* throws to the caller, nor returns nothing, nor leaves the promise pending
\* or fulfilled.
AbsentOperationRejects ==
  \A i \in DOMAIN calls :
    calls[i].handle = 0
      => /\ calls[i].umethod = "none" /\ calls[i].under = "none"
         /\ calls[i].ret = "promise"
         /\ calls[i].promise = "rejected"

====
